---- MODULE Spec2Model ----
(***************************************************************************)
(* A model of epymetheus/trade.py: the Trade object (constructor, execute, *)
(* array_value, final_pnl, to_dict/load_dict, the scaling operators) and   *)
(* the validator check_trade.                                              *)
(*                                                                         *)
(* Conventions.                                                            *)
(*  - An optional value (entry, exit, take, stop, and the attribute close, *)
(*    which exists only after execute) is a sequence: <<>> is None (or     *)
(*    "attribute not set"), <<x>> is the value x.                          *)
(*  - Row positions are 0-based as in numpy/pandas; an array over the rows *)
(*    of a table is a function on 0..n-1.  A position of -1 is what        *)
(*    Index.get_indexer returns for a label that is not in the index.      *)
(*  - A lot entry is a rational [n, d] in lowest terms with d > 0; d = 0   *)
(*    encodes the non-finite floats (n = 1: inf, n = -1: -inf, n = 0: nan).*)
(*  - The per-asset vectors (asset, lot) are sequences 1..N.               *)
(***************************************************************************)
EXTENDS Integers, Sequences, FiniteSets, TLC

VARIABLES trades, ret

vars == <<trades, ret>>

(* Bounds of the model *)
NRows == 4
MaxTake == 1
MaxTrades == 2

-----------------------------------------------------------------------------
(* Optional values *)

None == <<>>

Some(x) == <<x>>

IsNone(o) == o = <<>>

Val(o) == o[1]

-----------------------------------------------------------------------------
(* Rational arithmetic for lots (float arithmetic of numpy, made exact) *)

Abs(x) == IF x < 0 THEN -x ELSE x

Sign(x) == IF x < 0 THEN -1 ELSE IF x = 0 THEN 0 ELSE 1

RECURSIVE Gcd(_, _)
Gcd(a, b) == IF b = 0 THEN a ELSE Gcd(b, a % b)

Q(n, d) ==
  IF d = 1 THEN [n |-> n, d |-> 1]
  ELSE IF d = 0 THEN [n |-> Sign(n), d |-> 0]
  ELSE LET g == Gcd(Abs(n), Abs(d))
           s == Sign(d)
       IN  [n |-> (s * n) \div g, d |-> (s * d) \div g]

QInt(i) == [n |-> i, d |-> 1]

QMul(a, b) == Q(a.n * b.n, a.d * b.d)

QAdd(a, b) == Q(a.n * b.d + b.n * a.d, a.d * b.d)

QSub(a, b) == Q(a.n * b.d - b.n * a.d, a.d * b.d)

QGe(a, b) == a.n * b.d >= b.n * a.d

QLe(a, b) == a.n * b.d <= b.n * a.d

isfinite(a) == a.d # 0

-----------------------------------------------------------------------------
(* Price tables (pandas.DataFrame): index labels, columns, numeric cells *)

Columns == {"A0", "A1"}

AbsentAsset == "A9"

Label(i) == 10 * (i + 1)

AbsentLabel == Label(0) + 5

StartPrice == NRows + 1

RECURSIVE WalkSum(_, _)
WalkSum(steps, r) == IF r = 0 THEN 0 ELSE steps[r] + WalkSum(steps, r - 1)

MakeTable(n, steps) ==
  [index  |-> [i \in 0..(n - 1) |-> Label(i)],
   values |-> [i \in 0..(n - 1) |->
                 [c \in Columns |->
                    IF c = "A0" THEN StartPrice + WalkSum(steps, i)
                    ELSE i + 1]]]

(* A0 follows every +1/-1 walk whose first step is up (a walk starting down
   is the same path for the negated lot); A1 rises by one per bar.  One
   table is a bar shorter, so that a label or a close of one table can be
   missing from another. *)
Walks(n) == {steps \in [1..(n - 1) -> {-1, 1}] : steps[1] = 1}

Tables ==
  {MakeTable(NRows, steps) : steps \in Walks(NRows)}
  \cup {MakeTable(NRows - 1, [j \in 1..(NRows - 2) |-> 1])}

NoUniverse == [index |-> <<>>, values |-> <<>>]

TableColumns(universe) == DOMAIN universe.values[0]

NBars(universe) == Cardinality(DOMAIN universe.index)

IndexLabels(universe) == {universe.index[i] : i \in DOMAIN universe.index}

(* Index.get_indexer([label]).item(): the position of label, -1 if absent *)
get_indexer(universe, label) ==
  IF IsNone(label) \/ Val(label) \notin IndexLabels(universe) THEN -1
  ELSE CHOOSE i \in DOMAIN universe.index : universe.index[i] = Val(label)

(* a[i] of a numpy array of length n: a negative i counts from the end *)
PyPos(n, i) == IF i < 0 THEN n + i ELSE i

(* the first position of the slice a[i:] or one past the last of a[:i] *)
PySlice(n, i) == IF i < 0 THEN (IF n + i < 0 THEN 0 ELSE n + i)
                 ELSE IF i > n THEN n ELSE i

-----------------------------------------------------------------------------
(* Trade.__init__ *)

(* An array-like constructor argument: a scalar, or a list of values *)
Scalar(x) == [shape |-> "scalar", v |-> <<x>>]

Array(xs) == [shape |-> "array", v |-> xs]

(* np.asarray(asset).reshape(-1) *)
reshape(a) == a.v

(* np.broadcast_to(np.asarray(lot), asset.shape): a scalar or a one-element
   array is repeated, an array of the same length is kept *)
CanBroadcast(a, n) == a.shape = "scalar" \/ Len(a.v) = 1 \/ Len(a.v) = n

broadcast_to(a, n) ==
  IF a.shape = "scalar" \/ Len(a.v) = 1 THEN [k \in 1..n |-> a.v[1]] ELSE a.v

Trade__init__(asset, entry, exit, take, stop, lot) ==
  IF ~CanBroadcast(lot, Len(reshape(asset)))
  THEN [outcome |-> "ValueError", value |-> <<>>]
  ELSE [outcome |-> "ok",
        value   |-> <<[asset |-> reshape(asset),
                       entry |-> entry,
                       exit  |-> exit,
                       take  |-> take,
                       stop  |-> stop,
                       lot   |-> broadcast_to(lot, Len(reshape(asset))),
                       close |-> None]>>]

-----------------------------------------------------------------------------
(* Trade.array_value, Trade.execute, Trade.final_pnl *)

(* universe.columns.get_indexer(self.asset) has no -1 *)
AssetsKnown(self, universe) ==
  \A k \in DOMAIN self.asset : self.asset[k] \in TableColumns(universe)

(* self.lot * universe.loc[:, self.asset].values : bars x legs *)
array_value(self, universe) ==
  [i \in DOMAIN universe.index |->
     [k \in DOMAIN self.asset |->
        QMul(self.lot[k], QInt(universe.values[i][self.asset[k]]))]]

RECURSIVE QSum(_, _)
QSum(row, k) == IF k = 0 THEN QInt(0) ELSE QAdd(row[k], QSum(row, k - 1))

(* .sum(axis=1) *)
sum_axis1(value) ==
  [i \in DOMAIN value |-> LET row == value[i] IN QSum(row, Len(row))]

(* np.searchsorted(signal, True): numpy's left binary search for one key *)
RECURSIVE binsearch_left(_, _, _)
binsearch_left(signal, min_idx, max_idx) ==
  IF min_idx >= max_idx THEN min_idx
  ELSE LET mid_idx == min_idx + ((max_idx - min_idx) \div 2)
       IN  IF ~signal[mid_idx]
           THEN binsearch_left(signal, mid_idx + 1, max_idx)
           ELSE binsearch_left(signal, min_idx, mid_idx)

searchsorted(signal, n) == binsearch_left(signal, 0, n)

Min(a, b) == IF a <= b THEN a ELSE b

(* entry/exit as execute resolves them: None is the first/last row label *)
ResolveEntry(self, universe) ==
  IF IsNone(self.entry) THEN universe.index[0] ELSE Val(self.entry)

ResolveExit_FirstRow(self, universe) ==
  IF IsNone(self.exit) THEN universe.index[0] ELSE Val(self.exit)

ResolveExit(self, universe) ==
  IF IsNone(self.exit) THEN universe.index[NBars(universe) - 1]
  ELSE Val(self.exit)

(* lines 138-155: the close of a trade with take or stop set *)
BarrierClose(self, universe, entry, exit) ==
  LET n       == NBars(universe)
      i_entry == get_indexer(universe, Some(entry))
      i_exit  == get_indexer(universe, Some(exit))
      value   == sum_axis1(array_value(self, universe))
      v_entry == value[i_entry]
      pnl     == [i \in 0..(n - 1) |->
                    IF i < i_entry THEN QInt(0)
                    ELSE QSub(value[i], v_entry)]
      signal  == [i \in 0..(n - 1) |->
                    LET p == pnl[i]
                    IN  \/ (~IsNone(self.take) /\ QGe(p, QInt(Val(self.take))))
                        \/ (~IsNone(self.stop) /\ QLe(p, QInt(Val(self.stop))))]
      i_order == searchsorted(signal, n)
      i_close == Min(i_exit, i_order)
  IN  universe.index[i_close]

(* lines 129-134: the first failing lookup, "ok" if none fails *)
LookupOutcome(self, universe) ==
  IF ~AssetsKnown(self, universe) THEN "KeyError:asset"
  ELSE IF ResolveEntry(self, universe) \notin IndexLabels(universe)
  THEN "KeyError:entry"
  ELSE IF ResolveExit(self, universe) \notin IndexLabels(universe)
  THEN "KeyError:exit"
  ELSE "ok"

raise_KeyError_AfterReset(self, what) ==
  [outcome |-> what, self |-> [self EXCEPT !.close = None]]

(* a raise of lines 129-134 leaves the object as it was *)
raise_KeyError(self, what) == [outcome |-> what, self |-> self]

SetClose_OnlyIfPending(self, close) ==
  IF IsNone(self.close) THEN [self EXCEPT !.close = Some(close)] ELSE self

(* line 157: self.close = close *)
SetClose(self, close) == [self EXCEPT !.close = Some(close)]

(* Trade.execute: the outcome and the trade object after the call *)
execute(self, universe) ==
  LET entry == ResolveEntry(self, universe)
      exit  == ResolveExit(self, universe)
  IN  IF LookupOutcome(self, universe) # "ok"
      THEN raise_KeyError(self, LookupOutcome(self, universe))
      ELSE LET close ==
                 IF ~IsNone(self.take) \/ ~IsNone(self.stop)
                 THEN BarrierClose(self, universe, entry, exit)
                 ELSE exit
           IN  [outcome |-> "ok", self |-> SetClose(self, close)]

HasCloseAttr_Always(self) == TRUE

(* line 215 reads self.close, an attribute only execute creates *)
HasCloseAttr(self) == ~IsNone(self.close)

(* Trade.final_pnl: the outcome and the returned vector (one entry per leg) *)
final_pnl(self, universe) ==
  LET n       == NBars(universe)
      i_entry == get_indexer(universe, self.entry)
  IN  IF ~HasCloseAttr(self)
      THEN [outcome |-> "AttributeError", value |-> <<>>]
      ELSE IF ~AssetsKnown(self, universe)
      THEN [outcome |-> "KeyError:asset", value |-> <<>>]
      ELSE
        LET i_close == get_indexer(universe, self.close)
            value   == array_value(self, universe)
            pnl0    == [i \in 0..(n - 1) |->
                          [k \in DOMAIN self.asset |->
                             IF i < PySlice(n, i_entry) THEN QInt(0)
                             ELSE QSub(value[i][k], value[PyPos(n, i_entry)][k])]]
            pnl     == [i \in 0..(n - 1) |->
                          IF i >= PySlice(n, i_close)
                          THEN pnl0[PyPos(n, i_close)] ELSE pnl0[i]]
        IN  [outcome |-> "ok", value |-> pnl[n - 1]]

-----------------------------------------------------------------------------
(* Trade.to_dict, Trade.load_dict *)

(* a dict is a function on its keys; "close" is a key only once it is set *)
to_dict(self) ==
  LET d == [asset |-> Array(self.asset),
            entry |-> self.entry,
            exit  |-> self.exit,
            take  |-> self.take,
            stop  |-> self.stop,
            lot   |-> Array(self.lot)]
  IN  IF ~IsNone(self.close) THEN d @@ [close |-> self.close] ELSE d

InitParams == {"asset", "entry", "exit", "take", "stop", "lot"}

(* the dict's items become keyword arguments of __init__: a key that is no
   parameter of it is a TypeError *)
load_dict(d) ==
  IF ~(DOMAIN d \subseteq InitParams) \/ "asset" \notin DOMAIN d
  THEN [outcome |-> "TypeError", value |-> <<>>]
  ELSE Trade__init__(d.asset,
                     IF "entry" \in DOMAIN d THEN d.entry ELSE None,
                     IF "exit" \in DOMAIN d THEN d.exit ELSE None,
                     IF "take" \in DOMAIN d THEN d.take ELSE None,
                     IF "stop" \in DOMAIN d THEN d.stop ELSE None,
                     IF "lot" \in DOMAIN d THEN d.lot ELSE Scalar(QInt(1)))

-----------------------------------------------------------------------------
(* The scaling operators.  They work on the heap of Trade objects: a Trade
   is referred to by its position in heap. *)

deepcopy_Alias(heap, id) == [heap |-> heap, id |-> id]

(* line 369: t = deepcopy(self), a new object with equal attributes *)
deepcopy(heap, id) == [heap |-> Append(heap, heap[id]), id |-> Len(heap) + 1]

(* numpy broadcasting of lot (length n) with np.asarray(num) *)
CanMultiply(lot, num) ==
  num.shape = "scalar" \/ Len(num.v) = 1 \/ Len(lot) = 1 \/ Len(num.v) = Len(lot)

Multiply(lot, num) ==
  LET m == IF num.shape = "scalar" \/ Len(num.v) = 1 THEN Len(lot)
           ELSE Len(num.v)
  IN  [k \in 1..m |->
         QMul(IF Len(lot) = 1 THEN lot[1] ELSE lot[k],
              IF num.shape = "scalar" \/ Len(num.v) = 1 THEN num.v[1]
              ELSE num.v[k])]

(* Trade.__rmul__ (and __mul__, which calls it): the heap after the call and
   the object returned *)
__rmul__(heap, id, num) ==
  IF ~CanMultiply(heap[id].lot, num)
  THEN [outcome |-> "ValueError", heap |-> heap, value |-> <<>>]
  ELSE LET c == deepcopy(heap, id)
       IN  [outcome |-> "ok",
            heap    |-> [c.heap EXCEPT ![c.id].lot = Multiply(@, num)],
            value   |-> <<c.id>>]

(* Trade.__neg__: (-1.0) * self *)
__neg__(heap, id) == __rmul__(heap, id, Scalar(QInt(-1)))

(* Trade.__truediv__: (1.0 / num) * self, for a scalar num *)
__truediv__(heap, id, num) ==
  IF num.v[1].n = 0
  THEN [outcome |-> "ZeroDivisionError", heap |-> heap, value |-> <<>>]
  ELSE __rmul__(heap, id, Scalar(Q(num.v[1].d, num.v[1].n)))

-----------------------------------------------------------------------------
(* check_trade *)

asset_check(trade, universe) ==
  \E k \in 1..Len(trade.asset) : trade.asset[k] \notin TableColumns(universe)

entry_check(trade, universe) ==
  ~IsNone(trade.entry) /\ Val(trade.entry) \notin IndexLabels(universe)

exit_check(trade, universe) ==
  ~IsNone(trade.exit) /\ Val(trade.exit) \notin IndexLabels(universe)

lot_check(trade) == \E k \in 1..Len(trade.lot) : ~isfinite(trade.lot[k])

take_check_RejectsZero(trade) == ~IsNone(trade.take) /\ Val(trade.take) <= 0

take_check(trade) == ~IsNone(trade.take) /\ Val(trade.take) < 0

stop_check(trade) == ~IsNone(trade.stop) /\ Val(trade.stop) > 0

(* the ValueError check_trade raises, "ok" if it returns *)
check_trade(trade, universe, flags) ==
  IF flags.check_asset /\ asset_check(trade, universe) THEN "ValueError:asset"
  ELSE IF flags.check_index /\ entry_check(trade, universe)
  THEN "ValueError:entry"
  ELSE IF flags.check_index /\ exit_check(trade, universe)
  THEN "ValueError:exit"
  ELSE IF flags.check_lot /\ lot_check(trade) THEN "ValueError:lot"
  ELSE IF flags.check_take /\ take_check(trade) THEN "ValueError:take"
  ELSE IF flags.check_stop /\ stop_check(trade) THEN "ValueError:stop"
  ELSE "ok"

-----------------------------------------------------------------------------
(* The inputs the model draws from *)

LabelChoices ==
  {None} \cup {Some(Label(i)) : i \in 0..(NRows - 1)} \cup {Some(AbsentLabel)}

TakeChoices == {None} \cup {Some(x) : x \in 0..MaxTake}

StopChoices == {None} \cup {Some(-x) : x \in 0..MaxTake}

LotValues == {QInt(-1), QInt(1)}

AssetChoices == {Scalar("A0"), Array(<<"A0", "A1">>)}

LotChoices ==
  {Scalar(q) : q \in LotValues} \cup {Array(<<p, q>>) : p, q \in LotValues}

(* the trades the constructor returns on these inputs *)
Constructed(assets, entries, exits, takes, stops, lots) ==
  {Val(r.value) :
     r \in {c \in {Trade__init__(a, en, ex, tk, st, l) :
                     a \in assets, en \in entries, ex \in exits,
                     tk \in takes, st \in stops, l \in lots} :
              c.outcome = "ok"}}

-----------------------------------------------------------------------------
(* The state machine.  trades is the heap of Trade objects (a Trade is
   referred to by its position); ret records the last call: the operation,
   the object it was called on, the table and the argument passed, the heap
   as it was before the call, and what the call returned or raised. *)

Ret(op, id, universe, arg, before, outcome, value) ==
  [op |-> op, id |-> id, universe |-> universe, arg |-> arg,
   before |-> before, outcome |-> outcome, value |-> value]

Ids == DOMAIN trades

Execute(id, universe) ==
  LET r == execute(trades[id], universe)
  IN  /\ trades' = [trades EXCEPT ![id] = r.self]
      /\ ret' = Ret("execute", id, universe, <<>>, trades, r.outcome, <<>>)

FinalPnl(id, universe) ==
  LET r == final_pnl(trades[id], universe)
  IN  /\ trades' = trades
      /\ ret' = Ret("final_pnl", id, universe, <<>>, trades, r.outcome, r.value)

Mul(id, num) ==
  LET r == __rmul__(trades, id, num)
  IN  /\ Len(trades) < MaxTrades
      /\ trades' = r.heap
      /\ ret' = Ret("mul", id, NoUniverse, num, trades, r.outcome, r.value)

Neg(id) ==
  LET r == __neg__(trades, id)
  IN  /\ Len(trades) < MaxTrades
      /\ trades' = r.heap
      /\ ret' = Ret("neg", id, NoUniverse, <<>>, trades, r.outcome, r.value)

TrueDiv(id, num) ==
  LET r == __truediv__(trades, id, num)
  IN  /\ Len(trades) < MaxTrades
      /\ trades' = r.heap
      /\ ret' = Ret("truediv", id, NoUniverse, num, trades, r.outcome, r.value)

(* Trade.load_dict(t.to_dict()) *)
RoundTrip(id) ==
  LET r == load_dict(to_dict(trades[id]))
  IN  /\ Len(trades) < MaxTrades
      /\ trades' = IF r.outcome = "ok" THEN Append(trades, Val(r.value))
                   ELSE trades
      /\ ret' = Ret("load_dict", id, NoUniverse, <<>>, trades, r.outcome,
                    IF r.outcome = "ok" THEN <<Len(trades) + 1>> ELSE <<>>)

InitialTrades ==
  Constructed(AssetChoices, LabelChoices, LabelChoices, TakeChoices,
              StopChoices, LotChoices)
  \cup Constructed({Scalar(AbsentAsset)}, LabelChoices, LabelChoices,
                   TakeChoices, StopChoices, {Scalar(QInt(1))})

(* Spec: one Trade, executed and valued against price tables *)
Init ==
  /\ trades \in {<<t>> : t \in InitialTrades}
  /\ ret = Ret("init", 1, NoUniverse, <<>>, <<>>, "ok", <<>>)

Next ==
  \/ \E id \in Ids, universe \in Tables : Execute(id, universe)
  \/ \E id \in Ids, universe \in Tables : FinalPnl(id, universe)

Spec == Init /\ [][Next]_vars

(* SpecScale: Trades scaled, copied through a dict, executed and valued *)
Factors == {QInt(-1), QInt(2)}

NumChoices(n) ==
  {Scalar(q) : q \in Factors}
  \cup {Array(v) : v \in [1..n -> Factors]}

DivChoices == {Scalar(QInt(0)), Scalar(QInt(2))}

ScaleTrades ==
  Constructed({Scalar("A0")}, {None, Some(Label(1))}, {None},
              {None, Some(MaxTake)}, {None}, {Scalar(QInt(1))})
  \cup Constructed({Array(<<"A0", "A1">>)}, {None, Some(Label(1))}, {None},
                   {None, Some(MaxTake)}, {None},
                   {Array(<<QInt(2), QInt(-1)>>)})

(* two tables: a zigzag of NRows bars and the shorter, rising one *)
ScaleTables ==
  {MakeTable(NRows, [j \in 1..(NRows - 1) |-> IF j % 2 = 1 THEN 1 ELSE -1]),
   MakeTable(NRows - 1, [j \in 1..(NRows - 2) |-> 1])}

InitScale ==
  /\ trades \in {<<t>> : t \in ScaleTrades}
  /\ ret = Ret("init", 1, NoUniverse, <<>>, <<>>, "ok", <<>>)

NextScale ==
  \/ \E id \in Ids : \E num \in NumChoices(Len(trades[id].lot)) : Mul(id, num)
  \/ \E id \in Ids : Neg(id)
  \/ \E id \in Ids : \E num \in DivChoices : TrueDiv(id, num)
  \/ \E id \in Ids : RoundTrip(id)
  \/ \E id \in Ids, universe \in ScaleTables : Execute(id, universe)
  \/ \E id \in Ids, universe \in ScaleTables : FinalPnl(id, universe)

SpecScale == InitScale /\ [][NextScale]_vars

(* SpecCheck: check_trade on trades that may break each of its rules *)
CheckTrade(id, universe, flags) ==
  /\ trades' = trades
  /\ ret' = Ret("check_trade", id, universe, flags, trades,
                check_trade(trades[id], universe, flags), <<>>)

Flags ==
  [check_asset : BOOLEAN, check_index : BOOLEAN, check_lot : BOOLEAN,
   check_take : BOOLEAN, check_stop : BOOLEAN]

Thresholds == {None} \cup {Some(x) : x \in (-MaxTake)..MaxTake}

CheckTrades ==
  Constructed({Scalar("A0"), Scalar(AbsentAsset), Array(<<"A0", AbsentAsset>>)},
              {None, Some(Label(0)), Some(AbsentLabel)},
              {None, Some(Label(NRows - 1)), Some(AbsentLabel)},
              Thresholds, Thresholds,
              {Scalar(QInt(1)), Scalar(Q(1, 0)), Scalar(Q(0, 0))})

InitCheck ==
  /\ trades \in {<<t>> : t \in CheckTrades}
  /\ ret = Ret("init", 1, NoUniverse, <<>>, <<>>, "ok", <<>>)

NextCheck ==
  \E id \in Ids, universe \in ScaleTables, flags \in Flags :
    CheckTrade(id, universe, flags)

SpecCheck == InitCheck /\ [][NextCheck]_vars

-----------------------------------------------------------------------------
(* Vocabulary of the properties *)

(* the object the last call was made on, as it is now and as it was *)
Self == trades[ret.id]

Before == ret.before[ret.id]

Executed == ret.op = "execute" /\ ret.outcome = "ok"

RowOf(universe, label) ==
  CHOOSE i \in DOMAIN universe.index : universe.index[i] = label

EntryRow(t, universe) ==
  IF IsNone(t.entry) THEN 0 ELSE RowOf(universe, Val(t.entry))

ExitRow(t, universe) ==
  IF IsNone(t.exit) THEN NBars(universe) - 1 ELSE RowOf(universe, Val(t.exit))

CloseRow(t, universe) == RowOf(universe, Val(t.close))

(* combined relative PnL of bar r: sum over the legs of lot * price, minus the
   same sum at the entry row, and 0 before the entry row *)
RECURSIVE LegSum(_, _, _, _)
LegSum(t, universe, r, k) ==
  IF k = 0 THEN QInt(0)
  ELSE QAdd(QMul(t.lot[k], QInt(universe.values[r][t.asset[k]])),
            LegSum(t, universe, r, k - 1))

RelativePnl(t, universe, r) ==
  IF r < EntryRow(t, universe) THEN QInt(0)
  ELSE QSub(LegSum(t, universe, r, Len(t.asset)),
            LegSum(t, universe, EntryRow(t, universe), Len(t.asset)))

Triggers(t, universe, r) ==
  \/ ~IsNone(t.take) /\ QGe(RelativePnl(t, universe, r), QInt(Val(t.take)))
  \/ ~IsNone(t.stop) /\ QLe(RelativePnl(t, universe, r), QInt(Val(t.stop)))

TriggerRows(t, universe) ==
  {r \in DOMAIN universe.index : Triggers(t, universe, r)}

(* the chronologically first triggering row; beyond the table if none *)
FirstTriggerRow(t, universe) ==
  IF TriggerRows(t, universe) = {} THEN NBars(universe)
  ELSE CHOOSE r \in TriggerRows(t, universe) :
         \A q \in TriggerRows(t, universe) : r <= q

(* t is in the state execute leaves it in on this table *)
ExecutedOn(t, universe) ==
  /\ ~IsNone(t.close)
  /\ execute(t, universe).outcome = "ok"
  /\ execute(t, universe).self.close = t.close

-----------------------------------------------------------------------------
(* C1: with take or stop set, execute sets close to the label of the row
   min(exit_row, first_trigger_row), first_trigger_row being the first row
   in chronological order whose combined relative PnL is >= take or <= stop,
   on every PnL path (also one whose trigger turns true and false again);
   with no triggering row close is the exit row. *)
C1_CloseIsFirstTrigger ==
  (Executed /\ (~IsNone(Self.take) \/ ~IsNone(Self.stop)))
    => Self.close =
         Some(ret.universe.index[Min(ExitRow(Self, ret.universe),
                                     FirstTriggerRow(Self, ret.universe))])

(* C2: with take and stop both unset, a successful execute sets close to
   the resolved exit: the explicit exit if set, else the label of the last
   row of the table. *)
C2_CloseIsExit ==
  (Executed /\ IsNone(Self.take) /\ IsNone(Self.stop))
    => Self.close =
         (IF ~IsNone(Self.exit) THEN Self.exit
          ELSE Some(ret.universe.index[NBars(ret.universe) - 1]))

C2_Witness ==
  /\ Executed /\ IsNone(Self.take) /\ IsNone(Self.stop)
  /\ IsNone(Self.exit)
  /\ Self.close = Some(Label(NRows - 1))

(* C3: for an executed trade and the table it was executed against,
   final_pnl returns a vector with one entry per leg, the entry of leg k
   being lot[k] * (price[close_row, asset k] - price[entry_row, asset k]),
   entry_row resolved as in execute (the first row when entry is unset). *)
C3_FinalPnlPerLeg ==
  (ret.op = "final_pnl" /\ ExecutedOn(Self, ret.universe))
    => /\ ret.outcome = "ok"
       /\ Len(ret.value) = Len(Self.asset)
       /\ \A k \in 1..Len(Self.asset) :
            ret.value[k] =
              QMul(Self.lot[k],
                   QInt(ret.universe.values[CloseRow(Self, ret.universe)][Self.asset[k]]
                        - ret.universe.values[EntryRow(Self, ret.universe)][Self.asset[k]]))

(* C7: for a trade with take >= 0 if set, stop <= 0 if set and
   entry_row <= exit_row, the row execute selects as close is not before
   the entry row and not after the exit row. *)
C7_CloseNotBeforeEntry ==
  (/\ Executed
   /\ (IsNone(Self.take) \/ Val(Self.take) >= 0)
   /\ (IsNone(Self.stop) \/ Val(Self.stop) <= 0)
   /\ EntryRow(Self, ret.universe) <= ExitRow(Self, ret.universe))
    => /\ EntryRow(Self, ret.universe) <= CloseRow(Self, ret.universe)
       /\ CloseRow(Self, ret.universe) <= ExitRow(Self, ret.universe)

LookupMissing(t, universe) ==
  \/ \E k \in 1..Len(t.asset) : t.asset[k] \notin TableColumns(universe)
  \/ ~IsNone(t.entry) /\ Val(t.entry) \notin IndexLabels(universe)
  \/ ~IsNone(t.exit) /\ Val(t.exit) \notin IndexLabels(universe)

(* C8: execute ends in a lookup failure whenever an asset of the trade is
   not among the table's columns, or an explicitly set entry or exit is not
   among its rows; the trade is then exactly what it was before the call (a
   pending trade stays pending, an executed one keeps its earlier close). *)
C8_LookupFailureKeepsState ==
  (ret.op = "execute" /\ LookupMissing(Before, ret.universe))
    => /\ ret.outcome \in {"KeyError:asset", "KeyError:entry", "KeyError:exit"}
       /\ Self = Before

C8_Witness ==
  /\ ret.op = "execute"
  /\ LookupMissing(Before, ret.universe)
  /\ ~IsNone(Before.close)
  /\ ret.outcome = "KeyError:exit"

Pending(t) == [t EXCEPT !.close = None]

(* C9: executing an executed trade against the same table leaves close
   unchanged; against another table it sets close to the value a pending
   trade with the same asset, lot, entry, exit, take and stop gets on that
   table, whatever the previous close; execute changes no field but close. *)
C9_ReExecution ==
  Executed
    => /\ ExecutedOn(Before, ret.universe) => Self.close = Before.close
       /\ Self.close = execute(Pending(Before), ret.universe).self.close
       /\ Pending(Self) = Pending(Before)

C9_Witness ==
  /\ Executed
  /\ ~IsNone(Before.close)
  /\ ~ExecutedOn(Before, ret.universe)
  /\ Self.close # Before.close

-----------------------------------------------------------------------------
(* the object a scaling operation or load_dict returned *)
New == trades[Val(ret.value)]

Scaled == ret.op \in {"mul", "neg", "truediv"} /\ ret.outcome = "ok"

AllPending(heap) == \A i \in DOMAIN heap : IsNone(heap[i].close)

(* C4: final_pnl on a pending trade (close not set) ends in an error and
   returns no value; no constructor, load or scaling operation makes a
   trade executed, so final_pnl still fails after any sequence of them. *)
C4_FinalPnlNeedsExecuted ==
  /\ (ret.op = "final_pnl" /\ IsNone(Before.close))
       => (ret.outcome # "ok" /\ ret.value = <<>>)
  /\ (ret.op # "execute" /\ AllPending(ret.before)) => AllPending(trades)

C4_Witness ==
  /\ ret.op = "final_pnl"
  /\ ret.id = 2
  /\ IsNone(Before.close)
  /\ ret.outcome = "AttributeError"
  /\ trades[2].lot # trades[1].lot

(* C5: for any trade, pending or executed, load_dict(to_dict(t)) succeeds
   and returns a trade equal to t on asset, entry, exit, take, stop, lot. *)
C5_RecordRoundTrip ==
  ret.op = "load_dict"
    => /\ ret.outcome = "ok"
       /\ Pending(New) = Pending(Before)

(* leg k of the returned lot is the source's times the factor *)
ScaledLot(k) ==
  IF ret.op = "neg" THEN New.lot[k] = QMul(Before.lot[k], QInt(-1))
  ELSE IF ret.op = "truediv"
  THEN QMul(New.lot[k], ret.arg.v[1]) = Before.lot[k]
  ELSE New.lot[k] =
         QMul(Before.lot[k],
              IF ret.arg.shape = "scalar" THEN ret.arg.v[1] ELSE ret.arg.v[k])

(* C6: a scaling operation (multiply by a scalar or a per-asset array,
   divide, negate) returns a new trade whose lot is the source's multiplied
   element-wise and whose other fields, a set close included, equal the
   source's; it leaves the source as it was, and no later operation on one
   trade (executing the result, say) alters another. *)
C6_ScalingReturnsFreshTrade ==
  /\ Scaled
       => /\ Val(ret.value) \notin DOMAIN ret.before
          /\ Len(New.lot) = Len(Before.lot)
          /\ \A k \in 1..Len(Before.lot) : ScaledLot(k)
          /\ [New EXCEPT !.lot = Before.lot] = Before
  /\ \A i \in DOMAIN ret.before :
       (Scaled \/ i # ret.id) => trades[i] = ret.before[i]

C6_Witness ==
  /\ Scaled
  /\ ret.op = "mul"
  /\ ret.arg.shape = "array"
  /\ Len(ret.arg.v) = 2
  /\ ~IsNone(Before.close)
  /\ New.close = Before.close
  /\ New.lot # Before.lot

(* the rules of check_trade: their order, flags, violations and errors *)
CheckOrder == <<"asset", "entry", "exit", "lot", "take", "stop">>

FlagOf(kind) ==
  CASE kind = "asset" -> ret.arg.check_asset
    [] kind \in {"entry", "exit"} -> ret.arg.check_index
    [] kind = "lot" -> ret.arg.check_lot
    [] kind = "take" -> ret.arg.check_take
    [] kind = "stop" -> ret.arg.check_stop

Broken(kind) ==
  CASE kind = "asset" ->
         ~(\A k \in 1..Len(Self.asset) :
             Self.asset[k] \in TableColumns(ret.universe))
    [] kind = "entry" ->
         ~(IsNone(Self.entry) \/ Val(Self.entry) \in IndexLabels(ret.universe))
    [] kind = "exit" ->
         ~(IsNone(Self.exit) \/ Val(Self.exit) \in IndexLabels(ret.universe))
    [] kind = "lot" -> ~(\A k \in 1..Len(Self.lot) : Self.lot[k].d # 0)
    [] kind = "take" -> ~(IsNone(Self.take) \/ Val(Self.take) >= 0)
    [] kind = "stop" -> ~(IsNone(Self.stop) \/ Val(Self.stop) <= 0)

ErrorOf(kind) ==
  CASE kind = "asset" -> "ValueError:asset"
    [] kind = "entry" -> "ValueError:entry"
    [] kind = "exit" -> "ValueError:exit"
    [] kind = "lot" -> "ValueError:lot"
    [] kind = "take" -> "ValueError:take"
    [] kind = "stop" -> "ValueError:stop"

(* C10: with every flag enabled check_trade succeeds exactly when every
   asset is a column, each set entry/exit is a row, every lot is finite,
   take is unset or >= 0 and stop is unset or <= 0; otherwise it raises the
   failure of the first violated check in the order asset, entry, exit,
   lot, take, stop.  A disabled flag removes exactly its check. *)
C10_FirstViolatedCheck ==
  ret.op = "check_trade"
    => /\ (ret.outcome = "ok") <=>
            (\A j \in 1..6 : ~(FlagOf(CheckOrder[j]) /\ Broken(CheckOrder[j])))
       /\ \A j \in 1..6 :
            (ret.outcome = ErrorOf(CheckOrder[j])) <=>
              /\ FlagOf(CheckOrder[j]) /\ Broken(CheckOrder[j])
              /\ \A i \in 1..(j - 1) :
                   ~(FlagOf(CheckOrder[i]) /\ Broken(CheckOrder[i]))

C10_Witness ==
  /\ ret.op = "check_trade"
  /\ ret.outcome = "ValueError:take"
  /\ ~ret.arg.check_lot
  /\ Broken("lot")
  /\ Broken("stop")

====
